---- MODULE Spec2Model ----
(***************************************************************************)
(* Model of the shared crate `common`: the fixed-capacity history buffer   *)
(* (src/ring_buffer/mod.rs) and the provided flood handler of the Flooder  *)
(* trait (src/networking/flooder.rs).                                      *)
(*                                                                         *)
(* Four specifications share the variables:                                *)
(*   SpecRB    drives one RingBuffer with arbitrary insert / pop calls;    *)
(*   Spec      is a small network of nodes whose has_seen_flood and        *)
(*             insert_flood are backed by a RingBuffer and which handle    *)
(*             every arriving flood request with handle_flood_request;     *)
(*   SpecCall  calls handle_flood_request once on a node in any state,     *)
(*             with any flood request;                                     *)
(*   SpecCopy  hands a freshly constructed node a flood request under any  *)
(*             routing header and session id, some of its neighbours       *)
(*             having dropped their receiver, and lets the neighbours      *)
(*             handle the copies they are sent.                            *)
(***************************************************************************)
EXTENDS Integers, Sequences, FiniteSets, TLC

(***************************************************************************)
(* Bounds of the model.                                                    *)
(***************************************************************************)
MaxCap == 2
NumElems == 3
MaxOps == 6
MaxFloods == 2
MaxTrace == 4
MaxRemovals == 1
MaxInTrace == 2

\* Option<T>: None is the empty sequence, Some(x) the one-element sequence
None == <<>>
Some(x) == <<x>>

Caps == 0..MaxCap
Elems == 1..NumElems

Range(s) == {s[i] : i \in 1..Len(s)}
Distinct(s) == \A i, j \in 1..Len(s) : i # j => s[i] # s[j]

(***************************************************************************)
(* RingBuffer<T>  (src/ring_buffer/mod.rs)                                 *)
(***************************************************************************)

\* RingBuffer::with_capacity: an empty VecDeque and the requested size.
\* (The 0x400 test only chooses how much memory is reserved up front.)
with_capacity(size) == [buff |-> <<>>, size |-> size]

\* RingBuffer::is_full: buff.len() == size
is_full(r) == Len(r.buff) = r.size

\* RingBuffer::is_empty
is_empty(r) == Len(r.buff) = 0

\* VecDeque::pop_front: the first element, or None on an empty deque.
pop_front(b) ==
  IF Len(b) = 0 THEN [val |-> None, buff |-> b]
                ELSE [val |-> Some(Head(b)), buff |-> Tail(b)]

\* RingBuffer::insert: pop the front if full, push e at the back,
\* return what was popped.
insert_evict_newest(r, e) ==
  IF is_full(r) /\ Len(r.buff) > 0
    THEN [rb  |-> [r EXCEPT !.buff = Append(SubSeq(r.buff, 1, Len(r.buff) - 1), e)],
          ret |-> Some(r.buff[Len(r.buff)])]
    ELSE [rb |-> [r EXCEPT !.buff = Append(r.buff, e)], ret |-> None]
insert(r, e) ==
  LET pf == IF is_full(r) THEN pop_front(r.buff)
                          ELSE [val |-> None, buff |-> r.buff]
  IN  [rb |-> [r EXCEPT !.buff = Append(pf.buff, e)], ret |-> pf.val]

\* RingBuffer::pop
pop_back(r) ==
  IF Len(r.buff) = 0 THEN [rb |-> r, ret |-> None]
  ELSE [rb  |-> [r EXCEPT !.buff = SubSeq(r.buff, 1, Len(r.buff) - 1)],
        ret |-> Some(r.buff[Len(r.buff)])]
pop(r) ==
  LET pf == pop_front(r.buff)
  IN  [rb |-> [r EXCEPT !.buff = pf.buff], ret |-> pf.val]

\* RingBuffer::contains: linear scan of the deque
contains_newest(r, e) == Len(r.buff) > 0 /\ r.buff[Len(r.buff)] = e
contains(r, e) == \E i \in 1..Len(r.buff) : r.buff[i] = e

(***************************************************************************)
(* State.                                                                  *)
(*   rb        the RingBuffer under test (SpecRB)                          *)
(*   ops       the calls made on rb so far, each with its argument, its    *)
(*             result and the contents of the buffer when it was made      *)
(*   nbrs      per node, the ids it holds a Sender<Packet> for             *)
(*   cache     per node, the RingBuffer behind has_seen_flood/insert_flood *)
(*   chan      per node, the flood requests queued on its packet channel   *)
(*   alive     per node, whether its receiver still exists                 *)
(*   nfloods   the number of floods initiated so far                       *)
(*   removals  the number of RemoveSender commands served so far           *)
(*   recorded  per node, the flood identifiers it has recorded, in order    *)
(*   handlers  per node and queued request, the nodes that ran             *)
(*             handle_flood_request on that copy so far, in order          *)
(*   lastCall  what the latest handle_flood_request call was given and did *)
(***************************************************************************)
VARIABLES rb, ops, nbrs, cache, chan, alive, nfloods, removals, recorded,
          handlers, lastCall

rbvars == <<rb, ops>>
netvars == <<nbrs, cache, chan, alive, nfloods, removals, recorded, handlers,
            lastCall>>
vars == <<rb, ops, nbrs, cache, chan, alive, nfloods, removals, recorded,
          handlers, lastCall>>

(***************************************************************************)
(* The network: nodes, flood identifiers, packets.                         *)
(***************************************************************************)
\* Nodes implement Flooder and are followed; Peers also holds a neighbour
\* that does not (a drone): packets sent to it leave the model.
Nodes == 1..3
Peers == 1..4
NoCall == [node |-> 0]

\* Flooder::NODE_TYPE of the type implementing the trait for node n
NODE_TYPE(n) == IF n = 1 THEN "Client" ELSE "Server"

\* the NodeType a peer enters in a path trace
PeerType(p) == IF p \in Nodes THEN NODE_TYPE(p) ELSE "Drone"

\* Flooder::get_id
get_id(n) == n

\* Flooder::get_neighbours: the ids; the channel of id m is chan[m]
get_neighbours(n) == nbrs[n]

\* Flooder::has_seen_flood, backed by the history cache
has_seen_flood(n, flood_id) == contains(cache[n], flood_id)

\* Flooder::insert_flood, backed by the history cache
insert_flood(c, flood_id) == insert(c, flood_id).rb

\* SourceRoutingHeader::empty_route, carried by flood requests
EmptyRoute == [hop_index |-> 0, hops |-> <<>>]

\* FloodRequest::increment: push (node_id, node_type) on the path trace
increment(fr, node_id, node_type) ==
  [fr EXCEPT !.path_trace = Append(@, <<node_id, node_type>>)]

Reverse(s) == [i \in 1..Len(s) |-> s[Len(s) + 1 - i]]

\* FloodRequest::generate_response: a flood-response packet whose route is
\* the ids of the path trace reversed (the initiator appended when the route
\* does not already end there), hop index 0.
generate_response(fr, sid) ==
  LET ids  == [i \in 1..Len(fr.path_trace) |-> fr.path_trace[i][1]]
      rev  == Reverse(ids)
      hops == IF Len(rev) > 0 /\ rev[Len(rev)] # fr.initiator_id
                THEN Append(rev, fr.initiator_id) ELSE rev
  IN  [kind |-> "FloodResponse",
       routing_header |-> [hop_index |-> 0, hops |-> hops],
       session_id |-> sid,
       flood_id |-> fr.flood_id,
       path_trace |-> fr.path_trace]

\* SourceRoutingHeader::increase_hop_index
increase_hop_index(rh) == [rh EXCEPT !.hop_index = @ + 1]

\* SourceRoutingHeader::current_hop: hops.get(hop_index)
current_hop(rh) ==
  IF rh.hop_index < Len(rh.hops) THEN Some(rh.hops[rh.hop_index + 1]) ELSE None

\* Packet::new_flood_request
new_flood_request(rh, sid, fr) ==
  [kind |-> "FloodRequest", routing_header |-> rh, session_id |-> sid,
   flood_request |-> fr]

\* every order in which an iterator can yield the members of S
Orders(S) ==
  {o \in [1..Cardinality(S) -> S] : \A i, j \in 1..Cardinality(S) : i # j => o[i] # o[j]}

(***************************************************************************)
(* Flooder::handle_flood_request  (src/networking/flooder.rs)              *)
(***************************************************************************)

\* sender_id: the id of the last trace entry, or the initiator
SenderId_First(fr) ==
  IF Len(fr.path_trace) = 0 THEN fr.initiator_id
  ELSE fr.path_trace[1][1]
SenderId(fr) ==
  IF Len(fr.path_trace) = 0 THEN fr.initiator_id
  ELSE fr.path_trace[Len(fr.path_trace)][1]

\* flood_tuple_id
FloodTupleId(fr) == <<fr.initiator_id, fr.flood_id>>

\* flood_r.increment(self.get_id(), Self::NODE_TYPE)
ExtendTrace_OnlyWhenNew(n, fr) ==
  IF has_seen_flood(n, FloodTupleId(fr)) THEN fr
  ELSE increment(fr, get_id(n), NODE_TYPE(n))
ExtendTrace_Replace(n, fr) ==
  IF Len(fr.path_trace) = 0 THEN increment(fr, get_id(n), NODE_TYPE(n))
  ELSE [fr EXCEPT !.path_trace[Len(fr.path_trace)] = <<get_id(n), NODE_TYPE(n)>>]
ExtendTrace(n, fr) == increment(fr, get_id(n), NODE_TYPE(n))

\* the branch test: has_seen_flood(flood_tuple_id) || it.len() <= 1
TakesTerminate_NoLeaf(n, flood_id) ==
  has_seen_flood(n, flood_id) \/ Cardinality(get_neighbours(n)) < 1
TakesTerminate_LeafOnly(n, flood_id) == Cardinality(get_neighbours(n)) <= 1
TakesTerminate_SeenOnly(n, flood_id) == has_seen_flood(n, flood_id)
TakesTerminate(n, flood_id) ==
  has_seen_flood(n, flood_id) \/ Cardinality(get_neighbours(n)) <= 1

\* the terminate branch: build the response, advance its hop index, look the
\* next hop up among the neighbours; send and report, or fail
Terminate_SendAnyway(n, sid, fr) ==
  LET resp       == generate_response(fr, sid)
      new_packet == [resp EXCEPT !.routing_header = increase_hop_index(@)]
      next_hop   == current_hop(new_packet.routing_header)
  IN  IF next_hop = None
        THEN [result |-> "Panic", next_hop |-> next_hop,
              sent |-> <<>>, reported |-> <<>>]
        ELSE [result   |-> IF next_hop[1] \in get_neighbours(n) THEN "Ok" ELSE "Err",
              next_hop |-> next_hop,
              sent     |-> <<[to |-> next_hop[1], packet |-> new_packet]>>,
              reported |-> <<new_packet>>]
Terminate_ReportOnly(n, sid, fr) ==
  LET resp       == generate_response(fr, sid)
      new_packet == [resp EXCEPT !.routing_header = increase_hop_index(@)]
      next_hop   == current_hop(new_packet.routing_header)
  IN  IF next_hop = None
        THEN [result |-> "Panic", next_hop |-> next_hop,
              sent |-> <<>>, reported |-> <<>>]
      ELSE IF next_hop[1] \in get_neighbours(n)
        THEN [result   |-> "Ok",
              next_hop |-> next_hop,
              sent     |-> <<>>,
              reported |-> <<new_packet>>]
        ELSE [result |-> "Err", next_hop |-> next_hop,
              sent |-> <<>>, reported |-> <<>>]
Terminate_NoAdvance(n, sid, fr) ==
  LET new_packet == generate_response(fr, sid)
      next_hop   == current_hop(new_packet.routing_header)
  IN  IF next_hop = None
        THEN [result |-> "Panic", next_hop |-> next_hop,
              sent |-> <<>>, reported |-> <<>>]
      ELSE IF next_hop[1] \in get_neighbours(n)
        THEN [result   |-> "Ok",
              next_hop |-> next_hop,
              sent     |-> <<[to |-> next_hop[1], packet |-> new_packet]>>,
              reported |-> <<new_packet>>]
        ELSE [result |-> "Err", next_hop |-> next_hop,
              sent |-> <<>>, reported |-> <<>>]
Terminate_NoRouteOnNone(n, sid, fr) ==
  LET resp       == generate_response(fr, sid)
      new_packet == [resp EXCEPT !.routing_header = increase_hop_index(@)]
      next_hop   == current_hop(new_packet.routing_header)
  IN  IF next_hop # None /\ next_hop[1] \in get_neighbours(n)
        THEN [result   |-> "Ok",
              next_hop |-> next_hop,
              sent     |-> <<[to |-> next_hop[1], packet |-> new_packet]>>,
              reported |-> <<new_packet>>]
        ELSE [result |-> "Err", next_hop |-> next_hop,
              sent |-> <<>>, reported |-> <<>>]
Terminate(n, sid, fr) ==
  LET resp       == generate_response(fr, sid)
      new_packet == [resp EXCEPT !.routing_header = increase_hop_index(@)]
      next_hop   == current_hop(new_packet.routing_header)
  IN  IF next_hop = None
        THEN [result |-> "Panic", next_hop |-> next_hop,
              sent |-> <<>>, reported |-> <<>>]
      ELSE IF next_hop[1] \in get_neighbours(n)
        THEN [result   |-> "Ok",
              next_hop |-> next_hop,
              sent     |-> <<[to |-> next_hop[1], packet |-> new_packet]>>,
              reported |-> <<new_packet>>]
        ELSE [result |-> "Err", next_hop |-> next_hop,
              sent |-> <<>>, reported |-> <<>>]

\* the propagate branch: one copy to every neighbour other than the sender,
\* in the order the iterator yields them, each reported after it is sent
PropagateTargets_All(n, sender_id) == get_neighbours(n)
PropagateTargets(n, sender_id) == {id \in get_neighbours(n) : id # sender_id}

Propagate_SharedTrace(rh, sid, fr, order) ==
  LET copy(i) == new_flood_request(rh, sid,
                   [fr EXCEPT !.path_trace =
                      @ \o [k \in 1..(i - 1) |-> <<order[k], PeerType(order[k])>>]])
  IN  [result   |-> "Ok",
       next_hop |-> None,
       sent     |-> [i \in 1..Len(order) |-> [to |-> order[i], packet |-> copy(i)]],
       reported |-> [i \in 1..Len(order) |-> copy(i)]]
Propagate_StopAtFailedSend(rh, sid, fr, order) ==
  LET new_packet == new_flood_request(rh, sid, fr)
      bad        == {i \in 1..Len(order) : order[i] \in Nodes /\ ~alive[order[i]]}
      n          == IF bad = {} THEN Len(order)
                    ELSE CHOOSE i \in bad : \A j \in bad : i <= j
  IN  [result   |-> "Ok",
       next_hop |-> None,
       sent     |-> [i \in 1..n |-> [to |-> order[i], packet |-> new_packet]],
       reported |-> [i \in 1..n |-> new_packet]]
Propagate_ReportOnce(rh, sid, fr, order) ==
  LET new_packet == new_flood_request(rh, sid, fr)
  IN  [result   |-> "Ok",
       next_hop |-> None,
       sent     |-> [i \in 1..Len(order) |-> [to |-> order[i], packet |-> new_packet]],
       reported |-> <<new_packet>>]
Propagate(rh, sid, fr, order) ==
  LET new_packet == new_flood_request(rh, sid, fr)
  IN  [result   |-> "Ok",
       next_hop |-> None,
       sent     |-> [i \in 1..Len(order) |-> [to |-> order[i], packet |-> new_packet]],
       reported |-> [i \in 1..Len(order) |-> new_packet]]

\* the ids given to insert_flood by one call
Inserted_Always(branch, flood_id) == <<flood_id>>
Inserted(branch, flood_id) ==
  IF branch = "propagate" THEN <<flood_id>> ELSE <<>>

\* the effects of one call in the order the code performs them: c.send and
\* send_to_controller for one packet after the other, then insert_flood;
\* each step names the position of its packet or identifier
Steps(sent, reported, inserted) ==
  LET np == IF Len(sent) > Len(reported) THEN Len(sent) ELSE Len(reported)
      io == [k \in 1..(2 * np) |->
               IF k % 2 = 1 THEN <<"send", (k + 1) \div 2>>
                            ELSE <<"send_to_controller", k \div 2>>]
      kept == SelectSeq(io, LAMBDA e : e[2] <= (IF e[1] = "send" THEN Len(sent)
                                                               ELSE Len(reported)))
  IN  kept \o [k \in 1..Len(inserted) |-> <<"insert_flood", k>>]

\* the whole call: what it returns, sends, reports and records, and the
\* flood request as the caller finds it afterwards
handle_flood_request(n, routing_header, sid, flood_r, order) ==
  LET sender_id      == SenderId(flood_r)
      flood_tuple_id == FloodTupleId(flood_r)
      fr1            == ExtendTrace(n, flood_r)
      branch         == IF TakesTerminate(n, flood_tuple_id)
                          THEN "terminate" ELSE "propagate"
      out            == IF branch = "terminate"
                          THEN Terminate(n, sid, fr1)
                          ELSE Propagate(routing_header, sid, fr1, order)
      ins            == IF out.result = "Panic" THEN <<>>
                        ELSE Inserted(branch, flood_tuple_id)
  IN  [node      |-> n,
       rh        |-> routing_header,
       sid       |-> sid,
       before    |-> flood_r,
       after     |-> fr1,
       sender_id |-> sender_id,
       flood_id  |-> flood_tuple_id,
       branch    |-> branch,
       result    |-> out.result,
       next_hop  |-> out.next_hop,
       sent      |-> out.sent,
       reported  |-> out.reported,
       inserted  |-> ins,
       steps     |-> Steps(out.sent, out.reported, ins)]

\* the orders in which this call may visit its broadcast targets
CallOrders(n, flood_r) ==
  IF TakesTerminate(n, FloodTupleId(flood_r)) THEN {<<>>}
  ELSE Orders(PropagateTargets(n, SenderId(flood_r)))

RECURSIVE InsertAll(_, _)
InsertAll(c, ids) ==
  IF Len(ids) = 0 THEN c ELSE InsertAll(insert_flood(c, Head(ids)), Tail(ids))

\* Sender::send on the channel of each packet's addressee: queued when the
\* receiver exists, lost otherwise.  Only flood requests are followed; what a
\* node does with a flood response is decided outside this crate.
Queued(m) == m.to \in Nodes /\ alive[m.to] /\ m.packet.kind = "FloodRequest"

\* c.send returns Err: the receiver of the channel was dropped
SendFails(m) == m.to \in Nodes /\ ~alive[m.to]

RECURSIVE Deliver(_, _)
Deliver(q, sent) ==
  IF Len(sent) = 0 THEN q
  ELSE LET m == Head(sent)
       IN  Deliver(IF Queued(m) THEN [q EXCEPT ![m.to] = Append(@, m.packet)] ELSE q,
                   Tail(sent))

\* the handlers of each copy Deliver queues: those of the request it copies
RECURSIVE DeliverMark(_, _, _)
DeliverMark(h, sent, who) ==
  IF Len(sent) = 0 THEN h
  ELSE LET m == Head(sent)
       IN  DeliverMark(IF Queued(m) THEN [h EXCEPT ![m.to] = Append(@, who)] ELSE h,
                       Tail(sent), who)

\* the network variables while only the buffer under test is exercised
NetIdle ==
  /\ nbrs = [n \in Nodes |-> {}]
  /\ cache = [n \in Nodes |-> with_capacity(0)]
  /\ chan = [n \in Nodes |-> <<>>]
  /\ alive = [n \in Nodes |-> TRUE]
  /\ nfloods = 0
  /\ removals = 0
  /\ recorded = [n \in Nodes |-> <<>>]
  /\ handlers = [n \in Nodes |-> <<>>]
  /\ lastCall = NoCall

InitRB ==
  /\ \E c \in Caps : rb = with_capacity(c)
  /\ ops = <<>>
  /\ NetIdle

\* rb.insert(e)
RBInsert(e) ==
  /\ Len(ops) < MaxOps
  /\ LET res == insert(rb, e)
     IN  /\ rb' = res.rb
         /\ ops' = Append(ops, [op |-> "insert", arg |-> e, ret |-> res.ret,
                                pre |-> rb.buff])
  /\ UNCHANGED netvars

\* rb.pop()
RBPop ==
  /\ Len(ops) < MaxOps
  /\ LET res == pop(rb)
     IN  /\ rb' = res.rb
         /\ ops' = Append(ops, [op |-> "pop", arg |-> None, ret |-> res.ret,
                                pre |-> rb.buff])
  /\ UNCHANGED netvars

NextRB ==
  \/ \E e \in Elems : RBInsert(e)
  \/ RBPop

SpecRB == InitRB /\ [][NextRB]_vars

(***************************************************************************)
(* The network of nodes.                                                   *)
(***************************************************************************)

\* the links the initial topology may have, each with a channel each way
Links == {{a, b} : a, b \in Nodes} \ {{a} : a \in Nodes}

\* Nodes are constructed with their packet_send map and an empty history
\* cache of some capacity; nothing is in flight.
Init ==
  /\ \E E \in SUBSET Links : nbrs = [n \in Nodes |-> {m \in Nodes : {n, m} \in E}]
  /\ \E c \in Caps : cache = [n \in Nodes |-> with_capacity(c)]
  /\ chan = [n \in Nodes |-> <<>>]
  /\ alive = [n \in Nodes |-> TRUE]
  /\ nfloods = 0
  /\ removals = 0
  /\ recorded = [n \in Nodes |-> <<>>]
  /\ handlers = [n \in Nodes |-> <<>>]
  /\ lastCall = NoCall
  /\ rb = with_capacity(0)
  /\ ops = <<>>

\* Node i starts a flood: a request with a fresh flood id, whose trace holds
\* the initiator (FloodRequest::initialize) or nothing (FloodRequest::new),
\* goes to every neighbour.
Initiate(i, traced) ==
  /\ nfloods < MaxFloods
  /\ alive[i]
  /\ nbrs[i] # {}
  /\ LET fr  == [initiator_id |-> i, flood_id |-> nfloods + 1,
                 path_trace |-> IF traced THEN <<<<i, NODE_TYPE(i)>>>> ELSE <<>>]
         pkt == new_flood_request(EmptyRoute, nfloods + 1, fr)
         ord == CHOOSE o \in Orders(nbrs[i]) : TRUE
         out == [k \in 1..Len(ord) |-> [to |-> ord[k], packet |-> pkt]]
     IN  /\ chan' = Deliver(chan, out)
         /\ handlers' = DeliverMark(handlers, out, <<>>)
  /\ nfloods' = nfloods + 1
  /\ UNCHANGED <<rb, ops, nbrs, cache, alive, removals, recorded, lastCall>>

\* Node n takes the next flood request off its channel and handles it.  A
\* panic ends the node's thread: its receiver is dropped with what it held.
Handle(n) ==
  /\ alive[n]
  /\ Len(chan[n]) > 0
  /\ Len(Head(chan[n]).flood_request.path_trace) < MaxTrace
  /\ LET pkt == Head(chan[n])
         fr  == pkt.flood_request
     IN  \E order \in CallOrders(n, fr) :
           LET call == handle_flood_request(n, pkt.routing_header,
                                            pkt.session_id, fr, order)
               who  == Append(Head(handlers[n]), n)
           IN  /\ chan' = IF call.result = "Panic"
                            THEN [chan EXCEPT ![n] = <<>>]
                            ELSE Deliver([chan EXCEPT ![n] = Tail(@)], call.sent)
               /\ handlers' = IF call.result = "Panic"
                                THEN [handlers EXCEPT ![n] = <<>>]
                                ELSE DeliverMark([handlers EXCEPT ![n] = Tail(@)],
                                                 call.sent, who)
               /\ cache' = [cache EXCEPT ![n] = InsertAll(@, call.inserted)]
               /\ alive' = [alive EXCEPT ![n] = call.result # "Panic"]
               /\ recorded' = [recorded EXCEPT ![n] = @ \o call.inserted]
               /\ lastCall' = [node         |-> n,
                               call         |-> call,
                               handlers     |-> who,
                               packet       |-> pkt,
                               failed       |-> {i \in 1..Len(call.sent) :
                                                   SendFails(call.sent[i])},
                               neighbours   |-> nbrs[n],
                               seen         |-> has_seen_flood(n, call.flood_id),
                               wasRecorded  |-> call.flood_id \in Range(recorded[n]),
                               cacheBefore  |-> cache[n].buff,
                               cacheAfter   |-> InsertAll(cache[n], call.inserted).buff]
  /\ UNCHANGED <<rb, ops, nbrs, nfloods, removals>>

\* Node n serves a RemoveSender(m) command: it drops its channel to m.
RemoveSender(n, m) ==
  /\ removals < MaxRemovals
  /\ alive[n]
  /\ m \in nbrs[n]
  /\ nbrs' = [nbrs EXCEPT ![n] = @ \ {m}]
  /\ removals' = removals + 1
  /\ UNCHANGED <<rb, ops, cache, chan, alive, nfloods, recorded, handlers,
                 lastCall>>

Next ==
  \/ \E i \in Nodes, traced \in BOOLEAN : Initiate(i, traced)
  \/ \E n \in Nodes : Handle(n)
  \/ \E n \in Nodes, m \in Peers : RemoveSender(n, m)

Spec == Init /\ [][Next]_vars

(***************************************************************************)
(* One node called with any flood request.                                 *)
(***************************************************************************)

\* the sequences over S of length at most k
RECURSIVE SeqsUpTo(_, _)
SeqsUpTo(S, k) ==
  IF k = 0 THEN {<<>>}
  ELSE LET shorter == SeqsUpTo(S, k - 1)
       IN  shorter \cup {Append(t, x) : t \in shorter, x \in S}

\* the path traces a request may arrive with
Traces == SeqsUpTo({<<p, PeerType(p)>> : p \in Peers}, MaxInTrace)

\* what a history cache of capacity c may hold of the floods of one
\* initiator: identifiers recorded by earlier propagate calls, none twice,
\* no more than c of them unless c is 0
Histories(c, initiator) ==
  {h \in SeqsUpTo({<<initiator, f>> : f \in 1..MaxFloods}, MaxFloods) :
     /\ Distinct(h)
     /\ c > 0 => Len(h) <= c}

\* Node 2 has any neighbour table and any such history, and any flood
\* request waits on its channel; the other nodes only receive what it sends.
InitCall ==
  /\ \E N \in SUBSET (Peers \ {2}) :
       nbrs = [n \in Nodes |-> IF n = 2 THEN N ELSE {}]
  /\ \E c \in Caps, initiator \in Peers, f \in 1..MaxFloods, tr \in Traces :
       /\ \E h \in Histories(c, initiator) :
            /\ cache = [n \in Nodes |-> IF n = 2 THEN [buff |-> h, size |-> c]
                                                  ELSE with_capacity(c)]
            /\ recorded = [n \in Nodes |-> IF n = 2 THEN h ELSE <<>>]
       /\ chan = [n \in Nodes |->
                    IF n = 2
                      THEN <<new_flood_request(EmptyRoute, f,
                               [initiator_id |-> initiator, flood_id |-> f,
                                path_trace |-> tr])>>
                      ELSE <<>>]
       /\ handlers = [n \in Nodes |->
                        IF n = 2 THEN <<[k \in 1..Len(tr) |-> tr[k][1]]>> ELSE <<>>]
  /\ alive = [n \in Nodes |-> TRUE]
  /\ nfloods = 0
  /\ removals = 0
  /\ lastCall = NoCall
  /\ rb = with_capacity(0)
  /\ ops = <<>>

NextCall == Handle(2)

SpecCall == InitCall /\ [][NextCall]_vars

(***************************************************************************)
(* One node called under any routing header, its neighbours answering.     *)
(***************************************************************************)

\* the routing header and session id a flood request may arrive under:
\* the empty route of a fresh flood, or a route some relay has written
Inbound == {[rh |-> EmptyRoute, sid |-> 7],
            [rh |-> [hop_index |-> 1, hops |-> <<1, 2>>], sid |-> 8]}

\* Node 2, just constructed, has any neighbour table; the other nodes have
\* a channel to node 2 when it has one to them; some of them have dropped
\* their receiver; any request of a flood, the first the node sees, waits
\* on node 2's channel.
InitCopy ==
  /\ \E N \in SUBSET (Peers \ {2}) :
       nbrs = [n \in Nodes |-> IF n = 2 THEN N ELSE IF n \in N THEN {2} ELSE {}]
  /\ \E c \in Caps : cache = [n \in Nodes |-> with_capacity(c)]
  /\ \E D \in SUBSET (Nodes \ {2}) : alive = [n \in Nodes |-> n \notin D]
  /\ \E initiator \in Peers, tr \in Traces, in \in Inbound :
       /\ chan = [n \in Nodes |->
                    IF n = 2
                      THEN <<new_flood_request(in.rh, in.sid,
                               [initiator_id |-> initiator, flood_id |-> 1,
                                path_trace |-> tr])>>
                      ELSE <<>>]
       /\ handlers = [n \in Nodes |->
                        IF n = 2 THEN <<[k \in 1..Len(tr) |-> tr[k][1]]>> ELSE <<>>]
  /\ recorded = [n \in Nodes |-> <<>>]
  /\ nfloods = 0
  /\ removals = 0
  /\ lastCall = NoCall
  /\ rb = with_capacity(0)
  /\ ops = <<>>

NextCopy == \E n \in Nodes : Handle(n)

SpecCopy == InitCopy /\ [][NextCopy]_vars

(***************************************************************************)
(* Properties of the RingBuffer, over the recorded calls.                  *)
(***************************************************************************)
NOps == Len(ops)
IsInsert(i) == ops[i].op = "insert"
\* every call after the i-th is an insert
OnlyInsertsAfter(i) == \A j \in (i + 1)..NOps : IsInsert(j)
\* the number of leading insert calls, when all inserts precede all pops
NIns == Cardinality({i \in 1..NOps : IsInsert(i)})
InsertsThenPops == \A i \in 1..NOps : IsInsert(i) <=> i <= NIns
Ins == [i \in 1..NIns |-> ops[i].arg]
Min(a, b) == IF a < b THEN a ELSE b

\* C1: for every capacity C passed to with_capacity, after any sequence of
\* insert calls the buffer holds at most C entries.
C1_CapacityInvariant ==
  OnlyInsertsAfter(0) => Len(rb.buff) <= rb.size

\* C8: after inserting C+k distinct identifiers (k >= 0) into an empty buffer
\* of capacity C the buffer holds exactly the C most recent ones in insertion
\* order; the i-th insert past capacity evicted the i-th oldest identifier,
\* and popping then yields the remaining C in insertion order followed by
\* None.
C8_KeepsMostRecent ==
  (InsertsThenPops /\ Distinct(Ins) /\ NIns >= rb.size) =>
    LET C     == rb.size
        kept  == SubSeq(Ins, NIns - C + 1, NIns)
        npops == NOps - NIns
    IN  /\ \A i \in 1..NIns :
             ops[i].ret = (IF i > C THEN Some(Ins[i - C]) ELSE None)
        /\ \A j \in 1..npops :
             ops[NIns + j].ret = (IF j <= C THEN Some(kept[j]) ELSE None)
        /\ rb.buff = SubSeq(kept, Min(npops, C) + 1, C)

\* C9: after insert(x), contains(x) is true immediately and through any
\* sequence of fewer than C further insert calls; x is no longer contained
\* only once at least C further insertions were made and one of them evicted
\* (returned) x.
C9_ContainedUntilEvicted ==
  \A i \in 1..NOps :
    (IsInsert(i) /\ OnlyInsertsAfter(i)) =>
      LET x == ops[i].arg
          m == NOps - i
      IN  /\ m < rb.size => contains(rb, x)
          /\ ~contains(rb, x) =>
               /\ m >= rb.size
               /\ \E j \in (i + rb.size)..NOps : ops[j].ret = Some(x)

\* C9 witness: with capacity 2, x was inserted, is still contained one
\* insert later (a past state recorded in ops) and is gone after two further
\* inserts of other identifiers.
C9_Witness ==
  /\ rb.size = 2
  /\ NOps >= 3
  /\ IsInsert(NOps - 2) /\ IsInsert(NOps - 1) /\ IsInsert(NOps)
  /\ ops[NOps - 1].arg # ops[NOps - 2].arg
  /\ ops[NOps].arg # ops[NOps - 2].arg
  /\ ops[NOps - 2].arg \in Range(ops[NOps].pre)
  /\ ops[NOps].ret = Some(ops[NOps - 2].arg)
  /\ ~contains(rb, ops[NOps - 2].arg)

\* C10: insert(e) returns the oldest stored entry, removed before e is
\* appended, exactly when the buffer is at capacity at the time of the call;
\* otherwise it appends e, removes nothing and returns None; in both cases e
\* becomes the newest entry.
C10_InsertResult ==
  (NOps > 0 /\ IsInsert(NOps)) =>
    LET o   == ops[NOps]
        pre == o.pre
    IN  /\ Len(pre) = rb.size =>
             /\ Len(pre) > 0
             /\ o.ret = Some(pre[1])
             /\ rb.buff = Append(Tail(pre), o.arg)
        /\ Len(pre) # rb.size =>
             /\ o.ret = None
             /\ rb.buff = Append(pre, o.arg)
        /\ Len(rb.buff) > 0 /\ rb.buff[Len(rb.buff)] = o.arg

\* the number of insert(x) calls made, and of calls that returned Some(x)
TimesInserted(x) == Cardinality({i \in 1..NOps : IsInsert(i) /\ ops[i].arg = x})
TimesRemoved(x) == Cardinality({i \in 1..NOps : ops[i].ret = Some(x)})

\* C11: after any sequence of insert and pop calls, contains(id) is true if
\* and only if id is currently stored, that is, it was inserted more often
\* than it was handed back by an evicting insert or a pop; an identifier
\* that was never inserted is never contained.
C11_ContainsIffStored ==
  \A x \in Elems :
    /\ contains(rb, x) <=> TimesInserted(x) > TimesRemoved(x)
    /\ TimesInserted(x) = 0 => ~contains(rb, x)

\* C11 witness: of three identifiers one was inserted and removed again and
\* is not contained, one is contained, and one was never inserted.
C11_Witness ==
  \E x, y, z \in Elems :
    /\ TimesInserted(x) > 0 /\ TimesRemoved(x) = TimesInserted(x)
    /\ ~contains(rb, x)
    /\ TimesInserted(y) > 0 /\ contains(rb, y)
    /\ TimesInserted(z) = 0 /\ ~contains(rb, z)

\* the arguments of the insert calls made before the i-th call, in order,
\* the number of entries handed back before it, and the buffer after it
InsertedBefore(i) ==
  LET ins == SelectSeq(SubSeq(ops, 1, i - 1), LAMBDA o : o.op = "insert")
  IN  [k \in 1..Len(ins) |-> ins[k].arg]
RemovedBefore(i) == Cardinality({j \in 1..(i - 1) : ops[j].ret # None})
BuffAfter(i) == IF i = NOps THEN rb.buff ELSE ops[i + 1].pre

\* C12: pop removes and returns the oldest stored entry, so that successive
\* pops return the stored entries in insertion order (the k-th entry handed
\* back overall is the k-th entry inserted), and pop returns None and
\* changes nothing when the buffer is empty.
C12_PopOldestFirst ==
  \A i \in 1..NOps :
    ~IsInsert(i) =>
      LET ins == InsertedBefore(i)
          r   == RemovedBefore(i)
      IN  IF r < Len(ins)
            THEN /\ ops[i].ret = Some(ins[r + 1])
                 /\ ops[i].ret = Some(ops[i].pre[1])
                 /\ BuffAfter(i) = SubSeq(ins, r + 2, Len(ins))
                 /\ BuffAfter(i) = Tail(ops[i].pre)
            ELSE /\ ops[i].pre = <<>>
                 /\ ops[i].ret = None
                 /\ BuffAfter(i) = <<>>

\* C12 witness: two different identifiers were inserted and three pops
\* followed: the first returned the older one, the second the newer one and
\* the third, on the empty buffer, None.
C12_Witness ==
  /\ NOps >= 5
  /\ IsInsert(NOps - 4) /\ IsInsert(NOps - 3)
  /\ ~IsInsert(NOps - 2) /\ ~IsInsert(NOps - 1) /\ ~IsInsert(NOps)
  /\ ops[NOps - 4].arg # ops[NOps - 3].arg
  /\ ops[NOps - 4].pre = <<>>
  /\ ops[NOps - 2].ret = Some(ops[NOps - 4].arg)
  /\ ops[NOps - 1].ret = Some(ops[NOps - 3].arg)
  /\ ops[NOps].pre = <<>> /\ ops[NOps].ret = None /\ rb.buff = <<>>

(***************************************************************************)
(* Properties of handle_flood_request, over the latest call.               *)
(***************************************************************************)
Called == lastCall.node # 0
\* the broadcast copies (flood requests) the call sent
Broadcasts(call) ==
  {i \in 1..Len(call.sent) : call.sent[i].packet.kind = "FloodRequest"}
\* the hop the response's routing header selects once advanced by one
AdvancedHop(call) ==
  current_hop(increase_hop_index(
    generate_response(call.after, call.sid).routing_header))
Occurrences(s, x) == Cardinality({i \in 1..Len(s) : s[i] = x})

\* C2: once a node has recorded a flood identifier, every later arrival of
\* that flood at the node takes the terminate branch and sends no broadcast
\* copy, whatever other floods the node handled in between.
C2_RecordedAlwaysTerminates ==
  (Called /\ lastCall.wasRecorded) =>
    /\ lastCall.call.branch = "terminate"
    /\ Broadcasts(lastCall.call) = {}

\* C3 as claimed: a node with N > 1 neighbours handling a flood it has not
\* recorded sends exactly N-1 broadcast copies and records the identifier
\* exactly once.
C3_FanOutNMinusOne ==
  (Called /\ Cardinality(lastCall.neighbours) > 1 /\ ~lastCall.wasRecorded) =>
    /\ Len(lastCall.call.sent) = Cardinality(lastCall.neighbours) - 1
    /\ Cardinality(Broadcasts(lastCall.call)) = Cardinality(lastCall.neighbours) - 1
    /\ lastCall.call.inserted = <<lastCall.call.flood_id>>

\* C3 (amended): a node with N > 1 neighbours handling a flood it has not
\* recorded sends exactly one broadcast copy to each neighbour other than
\* sender_id and to nobody else, which is N-1 copies when the sender is one
\* of its neighbours and N when it is not, and records the identifier
\* exactly once.
C3_FanOutAllButSender ==
  (Called /\ Cardinality(lastCall.neighbours) > 1 /\ ~lastCall.wasRecorded) =>
    LET call    == lastCall.call
        N       == Cardinality(lastCall.neighbours)
        targets == lastCall.neighbours \ {call.sender_id}
    IN  /\ call.branch = "propagate"
        /\ Broadcasts(call) = 1..Len(call.sent)
        /\ \A m \in Peers :
             Cardinality({i \in 1..Len(call.sent) : call.sent[i].to = m})
               = (IF m \in targets THEN 1 ELSE 0)
        /\ Len(call.sent) = (IF call.sender_id \in lastCall.neighbours
                               THEN N - 1 ELSE N)
        /\ call.inserted = <<call.flood_id>>
        /\ Occurrences(lastCall.cacheAfter, call.flood_id) = 1

\* C3 witness: a node with two neighbours, one of them the sender, has
\* broadcast a flood it had not recorded to the other one.
C3_Witness ==
  /\ Called
  /\ Cardinality(lastCall.neighbours) = 2
  /\ ~lastCall.wasRecorded
  /\ lastCall.call.sender_id \in lastCall.neighbours
  /\ lastCall.call.branch = "propagate"
  /\ Len(lastCall.call.sent) = 1
  /\ lastCall.call.inserted = <<lastCall.call.flood_id>>

C5_NoRouteSendsNothing ==
  (/\ Called
   /\ lastCall.call.branch = "terminate"
   /\ AdvancedHop(lastCall.call) # None
   /\ AdvancedHop(lastCall.call)[1] \notin lastCall.neighbours) =>
    /\ lastCall.call.result = "Err"
    /\ lastCall.call.sent = <<>>
    /\ lastCall.call.reported = <<>>

\* C5 witness: a terminating call whose next hop had no channel returned the
\* error.
C5_Witness ==
  /\ Called
  /\ lastCall.call.branch = "terminate"
  /\ AdvancedHop(lastCall.call) # None
  /\ AdvancedHop(lastCall.call)[1] \notin lastCall.neighbours
  /\ lastCall.call.result = "Err"

\* C6: a node with exactly one neighbour takes the terminate branch on every
\* arrival of a flood, whether or not the identifier is in its history cache,
\* and sends no broadcast copy.
C6_LeafTerminates ==
  (Called /\ Cardinality(lastCall.neighbours) = 1) =>
    /\ lastCall.call.branch = "terminate"
    /\ Broadcasts(lastCall.call) = {}

\* C6 witness: a node with one neighbour has terminated a flood whose
\* identifier was not in its cache.
C6_Witness ==
  /\ Called
  /\ Cardinality(lastCall.neighbours) = 1
  /\ ~lastCall.seen
  /\ lastCall.call.branch = "terminate"

\* C7: every call that returns has lengthened the flood message's path trace
\* by exactly one entry, this node's (id, type), on the propagate branch, on
\* a successful terminate and on a terminate that returns the error.
C7_TraceGrowsByOne ==
  (Called /\ lastCall.call.result \in {"Ok", "Err"}) =>
    LET call == lastCall.call
    IN  /\ Len(call.after.path_trace) = Len(call.before.path_trace) + 1
        /\ call.after.path_trace =
             Append(call.before.path_trace,
                    <<lastCall.node, NODE_TYPE(lastCall.node)>>)

\* C7 witness: a call on a flood the node had already seen returned the
\* error, its trace one entry longer.
C7_Witness ==
  /\ Called
  /\ lastCall.seen
  /\ lastCall.call.result = "Err"
  /\ Len(lastCall.call.after.path_trace) = Len(lastCall.call.before.path_trace) + 1


\* the positions in the call's steps of a given step
StepAt(call, e) == {k \in 1..Len(call.steps) : call.steps[k] = e}
\* the id of the last entry of the trace the request arrived with, or the
\* initiator when it arrived with none
Upstream(call) ==
  LET tr == call.before.path_trace
  IN  IF Len(tr) = 0 THEN call.before.initiator_id ELSE tr[Len(tr)][1]
\* how many packets the call sent on the channel of m
CopiesTo(call, m) == Cardinality({i \in 1..Len(call.sent) : call.sent[i].to = m})

\* C13: in every call, on both branches, the monitoring sink receives
\* exactly one report for each packet sent on a neighbour channel, carrying
\* that same packet, right after it was sent, and nothing else is reported.
C13_ReportsMatchSends ==
  Called =>
    LET call == lastCall.call
    IN  /\ Len(call.reported) = Len(call.sent)
        /\ \A i \in 1..Len(call.sent) :
             /\ call.reported[i] = call.sent[i].packet
             /\ \E k \in 1..(Len(call.steps) - 1) :
                  /\ StepAt(call, <<"send", i>>) = {k}
                  /\ StepAt(call, <<"send_to_controller", i>>) = {k + 1}
        /\ \A k \in 1..Len(call.steps) :
             call.steps[k][1] = "send_to_controller" =>
               call.steps[k][2] \in 1..Len(call.sent)

\* C13 witness: a propagating call sent two broadcast copies and reported
\* two.
C13_Witness ==
  /\ Called
  /\ lastCall.call.branch = "propagate"
  /\ Len(lastCall.call.sent) = 2
  /\ Len(lastCall.call.reported) = 2
  /\ lastCall.call.sent[1].to # lastCall.call.sent[2].to

\* C14: whenever the propagate branch is taken, the call returns success and
\* at least one broadcast copy is sent.
C14_PropagateSendsSome ==
  (Called /\ lastCall.call.branch = "propagate") =>
    /\ lastCall.call.result = "Ok"
    /\ Cardinality(Broadcasts(lastCall.call)) >= 1
    /\ \E m \in lastCall.neighbours : CopiesTo(lastCall.call, m) >= 1

\* C14 witness: a node with exactly two neighbours, one of them the sender,
\* propagated: the fewest copies the branch can send, one, went out and the
\* call returned success.
C14_Witness ==
  /\ Called
  /\ lastCall.call.branch = "propagate"
  /\ Cardinality(lastCall.neighbours) = 2
  /\ Upstream(lastCall.call) \in lastCall.neighbours
  /\ Cardinality(Broadcasts(lastCall.call)) = 1
  /\ lastCall.call.result = "Ok"

\* C15: on the terminate branch, when the neighbour table has a channel for
\* next_hop, exactly one flood-response packet is sent, on that neighbour's
\* channel only, no broadcast copy of the request is sent to any neighbour,
\* and the call returns success.
C15_TerminateSendsOneResponse ==
  (/\ Called
   /\ lastCall.call.branch = "terminate"
   /\ AdvancedHop(lastCall.call) # None
   /\ AdvancedHop(lastCall.call)[1] \in lastCall.neighbours) =>
    LET call == lastCall.call
    IN  /\ call.result = "Ok"
        /\ Len(call.sent) = 1
        /\ call.sent[1].packet.kind = "FloodResponse"
        /\ call.sent[1].to = AdvancedHop(call)[1]
        /\ \A m \in Peers : CopiesTo(call, m) = (IF m = AdvancedHop(call)[1] THEN 1 ELSE 0)
        /\ Broadcasts(call) = {}

\* C15 witness: a node with three neighbours terminated a flood it had seen
\* and sent the response to one of them.
C15_Witness ==
  /\ Called
  /\ lastCall.call.branch = "terminate"
  /\ lastCall.seen
  /\ Cardinality(lastCall.neighbours) = 3
  /\ lastCall.call.result = "Ok"
  /\ Len(lastCall.call.sent) = 1
  /\ lastCall.call.sent[1].to \in lastCall.neighbours

\* the path trace of the response a terminating call builds
ResponseTrace(call) == generate_response(call.after, call.sid).path_trace
TraceIds(tr) == [i \in 1..Len(tr) |-> tr[i][1]]

\* C16: whenever a node takes the terminate branch, the path trace carried
\* by the response lists, in visitation order, every node that handled this
\* copy of the flood on its way from the initiator (after the initiator's
\* own entry, when the initiator made one), and its last entry is the
\* terminating node itself.
C16_TraceListsHandlers ==
  (Called /\ lastCall.call.branch = "terminate") =>
    LET call == lastCall.call
        tr   == ResponseTrace(call)
        ids  == TraceIds(tr)
        hs   == lastCall.handlers
    IN  /\ Len(tr) > 0
        /\ tr[Len(tr)] = <<lastCall.node, NODE_TYPE(lastCall.node)>>
        /\ hs[Len(hs)] = lastCall.node
        /\ \/ ids = hs
           \/ ids = <<call.before.initiator_id>> \o hs
        /\ \A i \in 1..Len(tr) : tr[i][2] = PeerType(tr[i][1])
        /\ call.result = "Ok" => call.sent[1].packet.path_trace = tr

\* C16 witness: a flood started with an empty trace was handled by four
\* nodes in turn, the last of them the node that had handled it first; it
\* terminated the flood and sent the response, whose trace lists the four.
C16_Witness ==
  /\ Called
  /\ lastCall.call.branch = "terminate"
  /\ lastCall.call.result = "Ok"
  /\ Len(lastCall.handlers) = 4
  /\ TraceIds(ResponseTrace(lastCall.call)) = lastCall.handlers
  /\ lastCall.handlers[1] = lastCall.node

\* C17: sender_id is the id of the last path-trace entry as the flood
\* arrives, or initiator_id when the arriving trace is empty; the propagate
\* branch never sends a copy to a neighbour whose id equals sender_id and
\* sends one copy to every other neighbour.
C17_SenderExcluded ==
  Called =>
    LET call == lastCall.call
    IN  /\ call.sender_id = Upstream(call)
        /\ call.branch = "propagate" =>
             /\ CopiesTo(call, Upstream(call)) = 0
             /\ \A m \in lastCall.neighbours \ {Upstream(call)} :
                  /\ CopiesTo(call, m) = 1
                  /\ \E i \in Broadcasts(call) : call.sent[i].to = m

\* C17 witness: a request arrived with a trace of two different nodes, the
\* last of them one of the node's three neighbours, and was propagated to
\* the two others.
C17_Witness ==
  /\ Called
  /\ lastCall.call.branch = "propagate"
  /\ Len(lastCall.call.before.path_trace) = 2
  /\ lastCall.call.before.path_trace[1][1] # lastCall.call.before.path_trace[2][1]
  /\ lastCall.call.before.path_trace[1][1] \in lastCall.neighbours
  /\ lastCall.call.sender_id \in lastCall.neighbours
  /\ Cardinality(lastCall.neighbours) = 3
  /\ Len(lastCall.call.sent) = 2

\* C18: the history cache is modified only on the propagate branch: a call
\* that terminates, with the response sent or with the error, leaves the
\* cache contents and order unchanged; a propagate call adds exactly the
\* one identifier of the flood it handled, as the newest entry (the oldest
\* entry making room when the cache is full), after all broadcast copies
\* were sent.
C18_CacheOnlyOnPropagate ==
  Called =>
    LET call == lastCall.call
        pre  == lastCall.cacheBefore
        post == lastCall.cacheAfter
    IN  /\ (call.branch = "terminate" /\ call.result \in {"Ok", "Err"}) =>
             /\ post = pre
             /\ call.inserted = <<>>
             /\ \A k \in 1..Len(call.steps) : call.steps[k][1] # "insert_flood"
        /\ call.branch = "propagate" =>
             /\ call.inserted = <<call.flood_id>>
             /\ \/ post = Append(pre, call.flood_id)
                \/ Len(pre) > 0 /\ post = Append(Tail(pre), call.flood_id)
             /\ StepAt(call, <<"insert_flood", 1>>) = {Len(call.steps)}
             /\ \A i \in 1..Len(call.sent) :
                  \E k \in 1..(Len(call.steps) - 1) : call.steps[k] = <<"send", i>>

\* C18 witness: a propagate call on a node whose cache held one other
\* identifier sent two copies and left the cache holding both, the new one
\* last.
C18_Witness ==
  /\ Called
  /\ lastCall.call.branch = "propagate"
  /\ Len(lastCall.call.sent) = 2
  /\ Len(lastCall.cacheBefore) = 1
  /\ lastCall.cacheAfter = Append(lastCall.cacheBefore, lastCall.call.flood_id)
  /\ lastCall.call.steps[Len(lastCall.call.steps)] = <<"insert_flood", 1>>

C20_PanicsWithoutEffects ==
  (/\ Called
   /\ lastCall.call.branch = "terminate"
   /\ AdvancedHop(lastCall.call) = None) =>
    /\ lastCall.call.result = "Panic"
    /\ lastCall.call.sent = <<>>
    /\ lastCall.call.reported = <<>>
    /\ lastCall.call.steps = <<>>
    /\ lastCall.cacheAfter = lastCall.cacheBefore
    /\ ~alive[lastCall.node]

\* C20 witness: a node with a neighbour and a non-empty cache was handed a
\* flood of its own with an empty trace and panicked.
C20_Witness ==
  /\ Called
  /\ AdvancedHop(lastCall.call) = None
  /\ lastCall.call.result = "Panic"
  /\ lastCall.neighbours # {}
  /\ Len(lastCall.cacheBefore) > 0


\* the flood message one propagate call broadcasts: the arriving one, its
\* trace extended by the calling node's (id, role)
Extended(lc) ==
  LET fr == lc.packet.flood_request
  IN  [initiator_id |-> fr.initiator_id,
       flood_id     |-> fr.flood_id,
       path_trace   |-> Append(fr.path_trace, <<lc.node, NODE_TYPE(lc.node)>>)]

\* C21: all broadcast copies sent by one propagate call carry the inbound
\* routing header and session id unchanged and the same flood message, whose
\* trace is the arriving trace with this node's (id, role) appended; each
\* neighbour gets an independent copy: whatever a receiver has appended to
\* its copy since, every copy still queued for another receiver lists just
\* the nodes that handled that copy.
C21_CopiesUnchangedAndIndependent ==
  /\ (Called /\ lastCall.call.branch = "propagate") =>
       \A i \in 1..Len(lastCall.call.sent) :
         LET p == lastCall.call.sent[i].packet
         IN  /\ p.kind = "FloodRequest"
             /\ p.routing_header = lastCall.packet.routing_header
             /\ p.session_id = lastCall.packet.session_id
             /\ p.flood_request = Extended(lastCall)
             /\ p = lastCall.call.sent[1].packet
  /\ \A n \in Nodes : \A k \in 1..Len(chan[n]) :
       TraceIds(chan[n][k].flood_request.path_trace) = handlers[n][k]

\* C21 witness: node 2 broadcast a request that came under a non-empty route
\* to nodes 1 and 3; node 3 has since handled its copy, appending itself,
\* and the copy queued at node 1 is still the one node 2 sent, under the
\* inbound route and session id.
C21_Witness ==
  /\ Called
  /\ lastCall.node = 3
  /\ Len(lastCall.call.after.path_trace) = Len(lastCall.call.before.path_trace) + 1
  /\ Len(chan[1]) = 1
  /\ chan[1][1].routing_header.hops # <<>>
  /\ chan[1][1] = lastCall.packet
  /\ chan[1][1].flood_request.path_trace = lastCall.call.before.path_trace
  /\ handlers[1][1][Len(handlers[1][1])] = 2

\* C22: with has_seen_flood and insert_flood backed by the RingBuffer's
\* contains and insert, a node's history cache never holds the same flood
\* identifier twice, after any sequence of handle_flood_request calls: an
\* identifier is inserted only by a call in which has_seen_flood returned
\* false for it.
C22_CacheHoldsNoDuplicate ==
  /\ \A n \in Nodes : Distinct(cache[n].buff)
  /\ (Called /\ lastCall.call.inserted # <<>>) =>
       /\ ~lastCall.seen
       /\ lastCall.call.inserted = <<lastCall.call.flood_id>>
       /\ Occurrences(lastCall.cacheBefore, lastCall.call.flood_id) = 0
       /\ Occurrences(lastCall.cacheAfter, lastCall.call.flood_id) = 1

\* C22 witness: a node whose cache holds two identifiers was handed once
\* more a flood it had recorded; it terminated the flood and its cache
\* holds the identifier once.
C22_Witness ==
  /\ Called
  /\ lastCall.seen
  /\ lastCall.call.inserted = <<>>
  /\ Len(cache[lastCall.node].buff) = 2
  /\ Occurrences(cache[lastCall.node].buff, lastCall.call.flood_id) = 1

====
